---- MODULE Spec2Model ----
(***************************************************************************)
(* A model of package cache (src/cache/cache.go): a sharded key/value map  *)
(* with per-entry TTL watcher goroutines and per-shard statistics.         *)
(*                                                                         *)
(* Every goroutine (a client running one exported call, or a TTL watcher)  *)
(* has a program counter pc[g] and a frame fr[g] of its locals.  A call    *)
(* is cut where another goroutine can interleave: before sync.RWMutex      *)
(* Lock/RLock, and inside the critical section before a channel send that  *)
(* may block.  Get's counter increment under the shared lock is a load     *)
(* (taken together with RLock) and a store (taken together with RUnlock).  *)
(*                                                                         *)
(* The timer of a watcher may fire at any moment after SetWithTTL (the     *)
(* other goroutines may be arbitrarily slow), when its ttl is positive.    *)
(* RLock is granted whenever no writer holds the lock: the preference      *)
(* sync.RWMutex gives a waiting writer only removes interleavings.         *)
(* The variables log, calls, overlap and seen are history: no action reads *)
(* them to decide what the program does.                                   *)
(*                                                                         *)
(* Spec and FairSpec: two clients on two keys of one shard, ttl > 0.       *)
(* SeqSpec: one client, calls that do not overlap, GetStats, no TTL.       *)
(* StatsSpec: one working client, watchers, GetStats sweeps by both        *)
(* clients, keys of two shards.  TTLSpec: two clients on one key, with     *)
(* ttl <= 0 too.                                                           *)
(***************************************************************************)
EXTENDS Integers, Sequences, FiniteSets, TLC

\* ------------------------------------------------------------ bounds
\* number of shards of the modelled cache (the package variable is 64)
shards == 2
\* total number of exported calls the concurrent clients make in one behaviour
MaxCalls == 3
\* total number of calls of one behaviour of non-overlapping calls
SeqCalls == 5
\* number of client goroutines is the size of this set
Clients == {1, 2}
\* every SetWithTTL call starts one watcher; its id is also its channel's id
WatcherIds == {2 + i : i \in 1..MaxCalls}
Procs == Clients \cup WatcherIds

\* keys are byte strings: "a", "b", "g"; the concurrent clients use "a" and "g",
\* which share a shard
Keys == {<<97>>, <<98>>, <<103>>}
HotKeys == {<<97>>, <<103>>}
\* the non-overlapping calls use "a" and "b"
SeqKeys == {<<97>>, <<98>>}
\* the one caller of the non-overlapping calls
SeqClients == {1}
\* the client that reads and writes entries while snapshots are taken
Workers == {2}
\* the ttl arguments (seconds) the concurrent clients pass
TTLs == {1}
\* ttl arguments that include the non-positive ones, and the key they are used on
AnyTTLs == {-1, 0, 1}
TTLKeys == {<<97>>}

\* Go's nil for a channel and for an interface value
nil == 0
\* capacity of the exit channel made by SetWithTTL
exitCap == 1

VARIABLES
    Entries,    \* Entries[s]: the map of shard s, a function on the keys present
    Stats,      \* Stats[s]: the counters of shard s
    mu,         \* mu[s]: the RWMutex of shard s: its writer (or nil) and readers
    exit,       \* exit[w]: number of values buffered in watcher w's exit channel
    pc,         \* pc[g]: where goroutine g stands
    fr,         \* fr[g]: g's locals
    ret,        \* ret[c]: what client c's last call returned; GetStats builds its
                \* result there ("s := Stats{}") and sets kind when it returns
    budget,     \* calls the clients may still make
    log,        \* history: per key, the client writes and removes, in the order
                \* they took effect, and whether each found its key present
    calls,      \* history: counts of client calls, as the callers see them
                \* (rem is kept by non-overlapping callers only)
    overlap,    \* history: some call was made while another client's was under way
    seen        \* history: seen[c]: the counters of all shards as they stood at each
                \* instant of c's GetStats call, from its start to its return

vars == <<Entries, Stats, mu, exit, pc, fr, ret, budget, log, calls, overlap, seen>>

\* ------------------------------------------------------------ key router
RECURSIVE Xor(_, _, _)
\* bitwise exclusive or of the n low bits of a and b
Xor(a, b, n) ==
    IF n = 0 THEN 0
    ELSE (((a % 2) + (b % 2)) % 2) + 2 * Xor(a \div 2, b \div 2, n - 1)

\* a 32-bit hash value is kept as <<high 16 bits, low 16 bits>>
fnvOffset32 == <<33052, 40389>>

\* h * 16777619 modulo 2^32 (the FNV prime is 0x01000193)
fnvMul(h) ==
    LET p0 == h[2] * 403
    IN  <<(h[1] * 403 + h[2] * 256 + (p0 \div 65536)) % 65536, p0 % 65536>>

RECURSIVE fnv32(_, _)
\* hash/fnv New32 (FNV-1): for each byte, multiply then xor
fnv32(h, bytes) ==
    IF bytes = <<>> THEN h
    ELSE LET m == fnvMul(h)
         IN  fnv32(<<m[1], ((m[2] \div 256) * 256) + Xor(m[2] % 256, Head(bytes), 8)>>,
                   Tail(bytes))

\* uint(h.Sum32()) % uint(shards)
getShard(key) ==
    LET h == fnv32(fnvOffset32, key)
    IN  ((h[1] % shards) * (65536 % shards) + h[2]) % shards

ShardIds == 0..(shards - 1)

\* the shard of each key, computed once
shardOf == [key \in Keys |-> getShard(key)]

\* ------------------------------------------------------------ data
ZeroEntry == [value |-> nil, exit |-> nil]
ZeroStats == [Hits |-> 0, Misses |-> 0, Set |-> 0, Removed |-> 0]
\* via: the select case a watcher left its select by
NoFrame == [key |-> <<>>, value |-> nil, ttl |-> 0, ok |-> FALSE, n |-> 0,
            via |-> "none"]
NoRet == [kind |-> "none", value |-> nil, found |-> FALSE, stats |-> ZeroStats]

\* e, ok := s.Entries[key]
Lookup(m, key) ==
    IF key \in DOMAIN m THEN [e |-> m[key], ok |-> TRUE]
    ELSE [e |-> ZeroEntry, ok |-> FALSE]

\* s.Entries[key] = e
Store(m, key, e) ==
    [k \in DOMAIN m \cup {key} |-> IF k = key THEN e ELSE m[k]]

\* delete(s.Entries, key)
Delete(m, key) == [k \in DOMAIN m \ {key} |-> m[k]]

Present(key) == key \in DOMAIN Entries[shardOf[key]]

\* ------------------------------------------------------------ initial state
Init ==
    /\ Entries = [s \in ShardIds |-> [k \in {} |-> ZeroEntry]]
    /\ Stats = [s \in ShardIds |-> ZeroStats]
    /\ mu = [s \in ShardIds |-> [w |-> nil, r |-> {}]]
    /\ exit = [w \in WatcherIds |-> 0]
    /\ pc = [g \in Procs |-> IF g \in Clients THEN "idle" ELSE "unborn"]
    /\ fr = [g \in Procs |-> NoFrame]
    /\ ret = [c \in Clients |-> NoRet]
    /\ budget = MaxCalls
    /\ log = [k \in Keys |-> <<>>]
    /\ calls = [set |-> 0, hit |-> 0, miss |-> 0, rem |-> 0]
    /\ overlap = FALSE
    /\ seen = [c \in Clients |-> {}]

\* ------------------------------------------------------------ sync.RWMutex
\* a Lock that does not wait for the readers to leave
CanLockAmongReaders(s) == mu[s].w = nil

\* Lock succeeds when there is no writer and no reader
CanLock(s) == mu[s].w = nil /\ mu[s].r = {}
\* RLock succeeds when there is no writer
CanRLock(s) == mu[s].w = nil

Locked(s, g) == [mu EXCEPT ![s].w = g]
Unlocked(s) == [mu EXCEPT ![s].w = nil]

\* ------------------------------------------------------------ channels
\* "ok && e.exit != nil": the entry found has a channel to signal
NeedsSend(l) == l.ok /\ l.e.exit # nil

\* a send on a buffered channel proceeds while the buffer has room
CanSend(l) == exit[l.e.exit] < exitCap

\* e.exit <- struct{}{}, when the entry has a channel; blocks while it is full
Cancel(l) ==
    IF NeedsSend(l)
    THEN /\ CanSend(l)
         /\ exit' = [exit EXCEPT ![l.e.exit] = @ + 1]
    ELSE UNCHANGED exit

\* ------------------------------------------------------------ history
\* seen, after a step that leaves the counters as st: every GetStats call under
\* way has one more instant
Observed(st) ==
    [c \in Clients |->
        IF pc[c] \in {"GetStats:Lock", "GetStats:cs"} THEN seen[c] \cup {st} ELSE seen[c]]

\* ------------------------------------------------------------ client calls
\* a write carries a value no other call of the behaviour writes
FreshValue == budget

Enter(c, where, key, value, ttl) ==
    /\ pc[c] = "idle"
    /\ budget > 0
    /\ budget' = budget - 1
    /\ pc' = [pc EXCEPT ![c] = where]
    /\ fr' = [fr EXCEPT ![c] = [NoFrame EXCEPT !.key = key, !.value = value, !.ttl = ttl]]
    /\ ret' = [ret EXCEPT ![c] = NoRet]
    /\ overlap' = (overlap \/ \E d \in Clients \ {c} : pc[d] # "idle")
    /\ seen' = [seen EXCEPT ![c] = IF where = "GetStats:Lock" THEN {Stats} ELSE {}]
    /\ UNCHANGED <<Entries, Stats, mu, exit, log>>

CallSet(c, key) ==
    /\ Enter(c, "Set:Lock", key, FreshValue, 0)
    /\ UNCHANGED calls

CallSetWithTTL(c, key, ttl) ==
    /\ Enter(c, "SetWithTTL:Lock", key, FreshValue, ttl)
    /\ UNCHANGED calls

CallGet(c, key) ==
    /\ Enter(c, "Get:RLock", key, nil, 0)
    /\ UNCHANGED calls

CallRemove(c, key) ==
    /\ Enter(c, "Remove:Lock", key, nil, 0)
    /\ UNCHANGED calls

\* the same call, counted by its caller in calls.rem when its key is present as
\* the call is made: a count that means something when calls do not overlap
CallRemoveCounted(c, key) ==
    /\ Enter(c, "Remove:Lock", key, nil, 0)
    /\ calls' = [calls EXCEPT !.rem = IF Present(key) THEN @ + 1 ELSE @]

CallGetStats(c) ==
    /\ Enter(c, "GetStats:Lock", <<>>, nil, 0)
    /\ UNCHANGED calls

\* ------------------------------------------------------------ Set
SetLock(g) ==
    LET s == shardOf[fr[g].key]
    IN  /\ pc[g] = "Set:Lock"
        /\ CanLock(s)
        /\ mu' = Locked(s, g)
        /\ pc' = [pc EXCEPT ![g] = "Set:cs"]
        /\ UNCHANGED <<Entries, Stats, exit, fr, ret, budget, log, calls, overlap, seen>>

\* a Set that stores the entry it read, without the new value
SetEntryStale(e, value) == e

\* e.value = value: e keeps the exit field of the entry it was read from
SetEntry(e, value) == [e EXCEPT !.value = value]

SetCS(g) ==
    LET key == fr[g].key
        s == shardOf[key]
        l == Lookup(Entries[s], key)
    IN  /\ pc[g] = "Set:cs"
        /\ Cancel(l)
        /\ Entries' = [Entries EXCEPT ![s] = Store(@, key, SetEntry(l.e, fr[g].value))]
        /\ Stats' = [Stats EXCEPT ![s].Set = @ + 1]
        /\ mu' = Unlocked(s)
        /\ pc' = [pc EXCEPT ![g] = "idle"]
        /\ fr' = [fr EXCEPT ![g] = NoFrame]
        /\ log' = [log EXCEPT ![key] =
                      Append(@, [op |-> "Set", value |-> fr[g].value, ttl |-> 0, w |-> nil,
                                 ok |-> l.ok])]
        /\ calls' = [calls EXCEPT !.set = @ + 1]
        /\ seen' = Observed(Stats')
        /\ UNCHANGED <<ret, budget, overlap>>

\* ------------------------------------------------------------ SetWithTTL
SetWithTTLLock(g) ==
    LET s == shardOf[fr[g].key]
    IN  /\ pc[g] = "SetWithTTL:Lock"
        /\ CanLock(s)
        /\ mu' = Locked(s, g)
        /\ pc' = [pc EXCEPT ![g] = "SetWithTTL:cs"]
        /\ UNCHANGED <<Entries, Stats, exit, fr, ret, budget, log, calls, overlap, seen>>

\* the goroutine (and channel) the next "go func()" creates
NewWatcher ==
    CHOOSE w \in WatcherIds :
        pc[w] = "unborn" /\ \A v \in WatcherIds : v < w => pc[v] # "unborn"

\* e.value = value; e.exit = make(chan struct{}, 1)
SetWithTTLEntry(e, value, chn) == [e EXCEPT !.value = value, !.exit = chn]

\* time.Tick(d) returns nil when d <= 0: the watcher's timeout case is then
\* never ready; the watcher's frame keeps ttl to tell
SetWithTTLCS(g) ==
    LET key == fr[g].key
        s == shardOf[key]
        l == Lookup(Entries[s], key)
        w == NewWatcher
    IN  /\ pc[g] = "SetWithTTL:cs"
        /\ Cancel(l)
        /\ Entries' = [Entries EXCEPT
                          ![s] = Store(@, key, SetWithTTLEntry(l.e, fr[g].value, w))]
        /\ Stats' = [Stats EXCEPT ![s].Set = @ + 1]
        /\ mu' = Unlocked(s)
        /\ pc' = [pc EXCEPT ![g] = "idle", ![w] = "select"]
        /\ fr' = [fr EXCEPT ![g] = NoFrame,
                            ![w] = [NoFrame EXCEPT !.key = key, !.ttl = fr[g].ttl]]
        /\ log' = [log EXCEPT ![key] =
                      Append(@, [op |-> "SetWithTTL", value |-> fr[g].value,
                                 ttl |-> fr[g].ttl, w |-> w, ok |-> l.ok])]
        /\ calls' = [calls EXCEPT !.set = @ + 1]
        /\ seen' = Observed(Stats')
        /\ UNCHANGED <<ret, budget, overlap>>

\* ------------------------------------------------------------ the watcher
\* a timer that fires at once when its duration is not positive
TickFiresAtOnce(ttl) == TRUE

\* timeout := time.Tick(time.Second * time.Duration(ttl)): a channel that
\* delivers when ttl > 0, and nil, on which no receive is ever ready, otherwise
TickFires(ttl) == ttl > 0

\* case <-timeout: ready once the ttl has elapsed, at any later moment
WatcherTimeout(w) ==
    /\ pc[w] = "select"
    /\ TickFires(fr[w].ttl)
    /\ pc' = [pc EXCEPT ![w] = "Remove:Lock"]
    /\ fr' = [fr EXCEPT ![w].via = "timeout"]
    /\ UNCHANGED <<Entries, Stats, mu, exit, ret, budget, log, calls, overlap, seen>>

\* case <-e.exit: ready when the channel holds a value
WatcherExit(w) ==
    /\ pc[w] = "select"
    /\ exit[w] > 0
    /\ exit' = [exit EXCEPT ![w] = @ - 1]
    /\ pc' = [pc EXCEPT ![w] = "Remove:Lock"]
    /\ fr' = [fr EXCEPT ![w].via = "exit"]
    /\ UNCHANGED <<Entries, Stats, mu, ret, budget, log, calls, overlap, seen>>

\* ------------------------------------------------------------ Remove
RemoveLock(g) ==
    LET s == shardOf[fr[g].key]
    IN  /\ pc[g] = "Remove:Lock"
        /\ CanLock(s)
        /\ mu' = Locked(s, g)
        /\ pc' = [pc EXCEPT ![g] = "Remove:cs"]
        /\ UNCHANGED <<Entries, Stats, exit, fr, ret, budget, log, calls, overlap, seen>>

\* a Remove that signals and counts but leaves the entry in the map
RemoveEntriesKeep(m, key, ok) == m

\* delete(s.Entries, key) inside "if ok"
RemoveEntries(m, key, ok) == IF ok THEN Delete(m, key) ELSE m

\* a Remove that counts outside "if ok"
RemoveCountAlways(st, ok) == [st EXCEPT !.Removed = @ + 1]

\* s.Stats.Removed++ inside "if ok"
RemoveCount(st, ok) == IF ok THEN [st EXCEPT !.Removed = @ + 1] ELSE st

\* run by a client (an exported call) and by a watcher (which then returns)
RemoveCS(g) ==
    LET key == fr[g].key
        s == shardOf[key]
        l == Lookup(Entries[s], key)
    IN  /\ pc[g] = "Remove:cs"
        /\ Cancel(l)
        /\ Entries' = [Entries EXCEPT ![s] = RemoveEntries(@, key, l.ok)]
        /\ Stats' = [Stats EXCEPT ![s] = RemoveCount(@, l.ok)]
        /\ mu' = Unlocked(s)
        /\ pc' = [pc EXCEPT ![g] = IF g \in Clients THEN "idle" ELSE "done"]
        /\ fr' = [fr EXCEPT ![g] = IF g \in Clients THEN NoFrame ELSE @]
        /\ log' = IF g \in Clients
                  THEN [log EXCEPT ![key] =
                           Append(@, [op |-> "Remove", value |-> nil, ttl |-> 0, w |-> nil,
                                      ok |-> l.ok])]
                  ELSE log
        /\ seen' = Observed(Stats')
        /\ UNCHANGED <<ret, budget, calls, overlap>>

\* ------------------------------------------------------------ Get
\* s.RLock(); v, ok := s.Entries[key]; and the load of the counter that
\* "s.Stats.Hits++" or "s.Stats.Misses++" is about to write
GetRLock(g) ==
    LET key == fr[g].key
        s == shardOf[key]
        l == Lookup(Entries[s], key)
    IN  /\ pc[g] = "Get:RLock"
        /\ CanRLock(s)
        /\ mu' = [mu EXCEPT ![s].r = @ \cup {g}]
        /\ fr' = [fr EXCEPT ![g].ok = l.ok, ![g].value = l.e.value,
                            ![g].n = IF l.ok THEN Stats[s].Hits ELSE Stats[s].Misses]
        /\ pc' = [pc EXCEPT ![g] = "Get:cs"]
        /\ UNCHANGED <<Entries, Stats, exit, ret, budget, log, calls, overlap, seen>>

\* the store of the incremented counter
GetCount(st, ok, n) ==
    IF ok THEN [st EXCEPT !.Hits = n + 1] ELSE [st EXCEPT !.Misses = n + 1]

\* return v.value, true / return nil, ok
GetResult(f) ==
    [NoRet EXCEPT !.kind = "Get", !.value = IF f.ok THEN f.value ELSE nil,
                  !.found = f.ok]

GetCS(g) ==
    LET s == shardOf[fr[g].key]
    IN  /\ pc[g] = "Get:cs"
        /\ Stats' = [Stats EXCEPT ![s] = GetCount(@, fr[g].ok, fr[g].n)]
        /\ mu' = [mu EXCEPT ![s].r = @ \ {g}]
        /\ ret' = [ret EXCEPT ![g] = GetResult(fr[g])]
        /\ pc' = [pc EXCEPT ![g] = "idle"]
        /\ fr' = [fr EXCEPT ![g] = NoFrame]
        /\ calls' = [calls EXCEPT !.hit = IF fr[g].ok THEN @ + 1 ELSE @,
                                  !.miss = IF fr[g].ok THEN @ ELSE @ + 1]
        /\ seen' = Observed(Stats')
        /\ UNCHANGED <<Entries, exit, budget, log, overlap>>

\* ------------------------------------------------------------ GetStats
\* shrd := c.shard(i); shrd.Lock(), with i in fr[g].n
GetStatsLock(g) ==
    LET s == fr[g].n
    IN  /\ pc[g] = "GetStats:Lock"
        /\ CanLock(s)
        /\ mu' = Locked(s, g)
        /\ pc' = [pc EXCEPT ![g] = "GetStats:cs"]
        /\ UNCHANGED <<Entries, Stats, exit, fr, ret, budget, log, calls, overlap, seen>>

\* a sweep that assigns each shard's counters instead of adding them
AccumulateAssign(acc, st) == st

\* a sweep that adds the set counter where the removed counter belongs
AccumulateMixed(acc, st) ==
    [Hits |-> acc.Hits + st.Hits, Misses |-> acc.Misses + st.Misses,
     Set |-> acc.Set + st.Set, Removed |-> acc.Removed + st.Set]

\* s.Hits += shrd.Stats.Hits, and so on for the other three counters
Accumulate(acc, st) ==
    [Hits |-> acc.Hits + st.Hits, Misses |-> acc.Misses + st.Misses,
     Set |-> acc.Set + st.Set, Removed |-> acc.Removed + st.Removed]

\* a sweep with the operands of "+=" exchanged: it adds to the shard's counters
ShardSweptInto(acc, st) ==
    [Hits |-> st.Hits + acc.Hits, Misses |-> st.Misses + acc.Misses,
     Set |-> st.Set + acc.Set, Removed |-> st.Removed + acc.Removed]

\* shrd.Stats after the loop body: the four "+=" only read it
ShardSwept(acc, st) == st

\* a sweep that defers its unlocks to the return: the lock stays held
GetStatsUnlockDeferred(s) == mu

\* shrd.Unlock() at the end of the loop body
GetStatsUnlock(s) == Unlocked(s)

\* the loop body after Lock, the i++ and the loop test; return &s at the end
GetStatsCS(g) ==
    LET s == fr[g].n
        acc == Accumulate(ret[g].stats, Stats[s])
    IN  /\ pc[g] = "GetStats:cs"
        /\ Stats' = [Stats EXCEPT ![s] = ShardSwept(acc, @)]
        /\ mu' = GetStatsUnlock(s)
        /\ IF s + 1 < shards
           THEN /\ fr' = [fr EXCEPT ![g].n = s + 1]
                /\ pc' = [pc EXCEPT ![g] = "GetStats:Lock"]
                /\ ret' = [ret EXCEPT ![g].stats = acc]
           ELSE /\ fr' = [fr EXCEPT ![g] = NoFrame]
                /\ pc' = [pc EXCEPT ![g] = "idle"]
                /\ ret' = [ret EXCEPT ![g] = [NoRet EXCEPT !.kind = "GetStats",
                                                          !.stats = acc]]
        /\ UNCHANGED <<Entries, exit, budget, log, calls, overlap, seen>>

\* ------------------------------------------------------------ specifications
\* a step of a call under way or of a watcher: what the Go scheduler runs
Step(g) ==
    \/ SetLock(g) \/ SetCS(g)
    \/ SetWithTTLLock(g) \/ SetWithTTLCS(g)
    \/ RemoveLock(g) \/ RemoveCS(g)
    \/ GetRLock(g) \/ GetCS(g)
    \/ WatcherTimeout(g) \/ WatcherExit(g)

\* clients call Set, SetWithTTL, Get and Remove concurrently
Next ==
    \/ \E c \in Clients, key \in HotKeys : CallSet(c, key)
    \/ \E c \in Clients, key \in HotKeys, ttl \in TTLs : CallSetWithTTL(c, key, ttl)
    \/ \E c \in Clients, key \in HotKeys : CallGet(c, key)
    \/ \E c \in Clients, key \in HotKeys : CallRemove(c, key)
    \/ \E g \in Procs : SetLock(g)
    \/ \E g \in Procs : SetCS(g)
    \/ \E g \in Procs : SetWithTTLLock(g)
    \/ \E g \in Procs : SetWithTTLCS(g)
    \/ \E g \in Procs : RemoveLock(g)
    \/ \E g \in Procs : RemoveCS(g)
    \/ \E g \in Procs : GetRLock(g)
    \/ \E g \in Procs : GetCS(g)
    \/ \E w \in WatcherIds : WatcherTimeout(w)
    \/ \E w \in WatcherIds : WatcherExit(w)

Spec == Init /\ [][Next]_vars

\* the Go scheduler runs every goroutine that can take a step
FairSpec == Spec /\ \A g \in Procs : WF_vars(Step(g))

AllIdle == \A c \in Clients : pc[c] = "idle"

\* calls that do not overlap, on entries without TTL, and GetStats
NextSeq ==
    \/ \E c \in SeqClients, key \in SeqKeys : AllIdle /\ CallSet(c, key)
    \/ \E c \in SeqClients, key \in SeqKeys : AllIdle /\ CallGet(c, key)
    \/ \E c \in SeqClients, key \in SeqKeys : AllIdle /\ CallRemoveCounted(c, key)
    \/ \E c \in SeqClients : AllIdle /\ CallGetStats(c)
    \/ \E c \in SeqClients : SetLock(c)
    \/ \E c \in SeqClients : SetCS(c)
    \/ \E c \in SeqClients : RemoveLock(c)
    \/ \E c \in SeqClients : RemoveCS(c)
    \/ \E c \in SeqClients : GetRLock(c)
    \/ \E c \in SeqClients : GetCS(c)
    \/ \E c \in SeqClients : GetStatsLock(c)
    \/ \E c \in SeqClients : GetStatsCS(c)

\* the same cache, with the budget of the non-overlapping calls
InitSeq ==
    /\ Entries = [s \in ShardIds |-> [k \in {} |-> ZeroEntry]]
    /\ Stats = [s \in ShardIds |-> ZeroStats]
    /\ mu = [s \in ShardIds |-> [w |-> nil, r |-> {}]]
    /\ exit = [w \in WatcherIds |-> 0]
    /\ pc = [g \in Procs |-> IF g \in Clients THEN "idle" ELSE "unborn"]
    /\ fr = [g \in Procs |-> NoFrame]
    /\ ret = [c \in Clients |-> NoRet]
    /\ budget = SeqCalls
    /\ log = [k \in Keys |-> <<>>]
    /\ calls = [set |-> 0, hit |-> 0, miss |-> 0, rem |-> 0]
    /\ overlap = FALSE
    /\ seen = [c \in Clients |-> {}]

SeqSpec == InitSeq /\ [][NextSeq]_vars

\* one client works on keys of two shards, with and without TTL, while both
\* clients take snapshots with GetStats
NextStats ==
    \/ \E c \in Workers, key \in SeqKeys : CallSet(c, key)
    \/ \E c \in Workers, key \in SeqKeys, ttl \in TTLs : CallSetWithTTL(c, key, ttl)
    \/ \E c \in Workers, key \in SeqKeys : CallGet(c, key)
    \/ \E c \in Workers, key \in SeqKeys : CallRemove(c, key)
    \/ \E c \in Clients : CallGetStats(c)
    \/ \E g \in Procs : SetLock(g)
    \/ \E g \in Procs : SetCS(g)
    \/ \E g \in Procs : SetWithTTLLock(g)
    \/ \E g \in Procs : SetWithTTLCS(g)
    \/ \E g \in Procs : RemoveLock(g)
    \/ \E g \in Procs : RemoveCS(g)
    \/ \E g \in Procs : GetRLock(g)
    \/ \E g \in Procs : GetCS(g)
    \/ \E w \in WatcherIds : WatcherTimeout(w)
    \/ \E w \in WatcherIds : WatcherExit(w)
    \/ \E c \in Clients : GetStatsLock(c)
    \/ \E c \in Clients : GetStatsCS(c)

StatsSpec == Init /\ [][NextStats]_vars

\* clients call concurrently on one key, SetWithTTL with any ttl
NextTTL ==
    \/ \E c \in Clients, key \in TTLKeys : CallSet(c, key)
    \/ \E c \in Clients, key \in TTLKeys, ttl \in AnyTTLs : CallSetWithTTL(c, key, ttl)
    \/ \E c \in Clients, key \in TTLKeys : CallGet(c, key)
    \/ \E c \in Clients, key \in TTLKeys : CallRemove(c, key)
    \/ \E g \in Procs : SetLock(g)
    \/ \E g \in Procs : SetCS(g)
    \/ \E g \in Procs : SetWithTTLLock(g)
    \/ \E g \in Procs : SetWithTTLCS(g)
    \/ \E g \in Procs : RemoveLock(g)
    \/ \E g \in Procs : RemoveCS(g)
    \/ \E g \in Procs : GetRLock(g)
    \/ \E g \in Procs : GetCS(g)
    \/ \E w \in WatcherIds : WatcherTimeout(w)
    \/ \E w \in WatcherIds : WatcherExit(w)

TTLSpec == Init /\ [][NextTTL]_vars

\* ------------------------------------------------------------ properties
Last(q) == q[Len(q)]

\* the value stored under key, or nil when key is absent
ValueOf(key) == Lookup(Entries[shardOf[key]], key).e.value

\* a client has looked key up in Get and is about to return
Getting(c, key) == pc[c] = "Get:cs" /\ fr[c].key = key

\* the sums of the per-shard counters over all shards
RECURSIVE SumStats(_)
SumStats(S) ==
    IF S = {} THEN ZeroStats
    ELSE LET s == CHOOSE x \in S : TRUE
         IN  Accumulate(SumStats(S \ {s}), Stats[s])

\* no two client calls have overlapped so far: each was made after the one
\* before it had returned
InOrder(key) == ~overlap

\* the client calls that took effect on key are SetWithTTL(v1, ttl > 0), then Set(v2)
TTLThenSet(key) ==
    /\ Len(log[key]) = 2
    /\ log[key][1].op = "SetWithTTL" /\ log[key][1].ttl > 0
    /\ log[key][2].op = "Set"
    /\ InOrder(key)

\* C1: overwrite safety.  After SetWithTTL(k, v1, ttl > 0) then Set(k, v2) and
\* no further client write or Remove of k, k is present with value v2 and
\* every Get(k) returns (v2, true): the watcher of v1 never removes v2.
C1_OverwriteSafety ==
    \A key \in HotKeys :
        TTLThenSet(key) =>
            /\ Present(key)
            /\ ValueOf(key) = log[key][2].value
            /\ \A c \in Clients :
                   Getting(c, key) =>
                       /\ GetResult(fr[c]).found
                       /\ GetResult(fr[c]).value = log[key][2].value

\* g holds its shard's lock at a send that can never complete: the channel is
\* full, and the watcher that alone receives from it has left its select
StuckInSend(g) ==
    /\ pc[g] \in {"Set:cs", "SetWithTTL:cs", "Remove:cs"}
    /\ LET l == Lookup(Entries[shardOf[fr[g].key]], fr[g].key)
       IN  NeedsSend(l) /\ ~CanSend(l) /\ pc[l.e.exit] # "select"

\* C2: cancellation never deadlocks.  No goroutine is ever blocked for good on
\* a channel send while it holds a shard lock.
C2_NoStuckSend == \A g \in Procs : ~StuckInSend(g)

\* key was never written with SetWithTTL and the last client call that took
\* effect on it is a Set
PlainSetLast(key) ==
    /\ log[key] # <<>>
    /\ \A i \in 1..Len(log[key]) : log[key][i].op # "SetWithTTL"
    /\ Last(log[key]).op = "Set"

\* C3: Set then Get.  For a key never written with SetWithTTL whose last
\* effective client call is Set(k, v), every Get(k) returns (v, true),
\* whatever happens to other keys.
C3_SetThenGet ==
    \A c \in Clients, key \in Keys :
        Getting(c, key) /\ PlainSetLast(key) =>
            /\ GetResult(fr[c]).found
            /\ GetResult(fr[c]).value = Last(log[key]).value

\* C3's case: such a Get is under way while another key of the same shard has
\* been written with a TTL and its watcher has run
C3_Witness ==
    \E c \in Clients, key \in HotKeys, other \in HotKeys :
        /\ Getting(c, key) /\ PlainSetLast(key)
        /\ other # key /\ shardOf[other] = shardOf[key]
        /\ log[other] # <<>> /\ log[other][1].op = "SetWithTTL"
        /\ pc[log[other][1].w] = "done"

\* the client calls that took effect on key are two SetWithTTL
TwoTTL(key) ==
    /\ Len(log[key]) = 2
    /\ log[key][1].op = "SetWithTTL"
    /\ log[key][2].op = "SetWithTTL"
    /\ InOrder(key)

\* C5: a newer SetWithTTL is not evicted by an older watcher.  After
\* SetWithTTL(k, v1) then SetWithTTL(k, v2) and no further client call on k,
\* k holds v2 as long as the second call's watcher still waits in its select
\* and the first call's timer has not fired.
C5_NewerTTLKept ==
    \A key \in HotKeys :
        /\ TwoTTL(key)
        /\ pc[log[key][2].w] = "select"
        /\ fr[log[key][1].w].via # "timeout"
        => Present(key) /\ ValueOf(key) = log[key][2].value

\* C8: counter updates are atomic with their operation.  Once all calls have
\* returned, hits + misses is the number of Get calls made and set is the
\* number of writes made.
C8_NoLostCount ==
    AllIdle =>
        LET t == SumStats(ShardIds)
        IN  /\ t.Hits + t.Misses = calls.hit + calls.miss
            /\ t.Hits = calls.hit
            /\ t.Misses = calls.miss
            /\ t.Set = calls.set

\* the watchers started for key that have not returned
LiveWatchers(key) ==
    {w \in WatcherIds : pc[w] \notin {"unborn", "done"} /\ fr[w].key = key}

\* C9: at most one active watcher per key.
C9_OneWatcherPerKey == \A key \in Keys : Cardinality(LiveWatchers(key)) <= 1

\* the one client call that took effect on key is a SetWithTTL with ttl > 0
OnlyTTL(key) ==
    /\ Len(log[key]) = 1
    /\ log[key][1].op = "SetWithTTL" /\ log[key][1].ttl > 0

\* C4: TTL expiry.  After SetWithTTL(k, v, ttl > 0) and no other client write
\* or Remove of k: until the watcher's Remove has run, k holds v and Get(k)
\* returns (v, true); after it, k is absent and Get(k) returns (nil, false);
\* and the watcher's Remove eventually runs.
C4_TTLExpiry ==
    \A key \in HotKeys :
        /\ [](OnlyTTL(key) =>
                 LET v == log[key][1].value
                     removed == pc[log[key][1].w] = "done"
                 IN  /\ Present(key) <=> ~removed
                     /\ ~removed => ValueOf(key) = v
                     /\ \A c \in Clients :
                            Getting(c, key) =>
                                GetResult(fr[c]) =
                                    IF removed
                                    THEN [NoRet EXCEPT !.kind = "Get"]
                                    ELSE [NoRet EXCEPT !.kind = "Get", !.value = v,
                                                       !.found = TRUE])
        /\ (OnlyTTL(key) ~> (~OnlyTTL(key) \/ ~Present(key)))

\* g leaves Remove's critical section in this step
RemoveReturns(g) == pc[g] = "Remove:cs" /\ pc'[g] # "Remove:cs"

\* the client calls that took effect on key are one write, then one or two Remove,
\* and no other key of its shard was ever written or removed
WriteThenRemoves(key) ==
    /\ Len(log[key]) \in {2, 3}
    /\ log[key][1].op \in {"Set", "SetWithTTL"}
    /\ \A i \in 2..Len(log[key]) : log[key][i].op = "Remove"
    /\ \A other \in Keys \ {key} : shardOf[other] = shardOf[key] => log[other] = <<>>

\* C6: idempotent removal.  A Remove of an absent key leaves the entries, the
\* counters and the channels as they are; a Remove of a present key deletes it
\* and adds one to removed.  So a write of k followed by two Remove(k) calls,
\* with all the Removes k's watcher may issue, leaves removed at exactly one.
C6_IdempotentRemove ==
    /\ [][\A g \in Procs :
              RemoveReturns(g) =>
                  LET key == fr[g].key
                      s == shardOf[key]
                  IN  IF key \in DOMAIN Entries[s]
                      THEN /\ Entries'[s] = Delete(Entries[s], key)
                           /\ Stats'[s] = [Stats[s] EXCEPT !.Removed = @ + 1]
                      ELSE UNCHANGED <<Entries, Stats, exit>>]_vars
    /\ [](\A key \in Keys :
              WriteThenRemoves(key) => Stats[shardOf[key]].Removed = 1)

\* C6's case: SetWithTTL(k), Remove(k), Remove(k), and k's watcher has run its
\* own Remove too
C6_Witness ==
    \E key \in HotKeys :
        /\ WriteThenRemoves(key)
        /\ InOrder(key)
        /\ Len(log[key]) = 3
        /\ log[key][1].op = "SetWithTTL"
        /\ pc[log[key][1].w] = "done"
        /\ AllIdle

\* C7: stats correctness for non-overlapping calls on entries without TTL.  The
\* snapshot GetStats returns has set = the Set calls completed, hits = the Get
\* calls that found their key, misses = the Get calls that did not, and
\* removed = the Remove calls issued on a present key.
C7_StatsCorrect ==
    \A c \in SeqClients :
        ret[c].kind = "GetStats" =>
            ret[c].stats = [Hits |-> calls.hit, Misses |-> calls.miss,
                            Set |-> calls.set, Removed |-> calls.rem]

\* C7's case: a snapshot taken after a Set, a hit, a Remove and a miss
C7_Witness ==
    \E c \in SeqClients :
        /\ ret[c].kind = "GetStats"
        /\ ret[c].stats.Set >= 1 /\ ret[c].stats.Hits >= 1
        /\ ret[c].stats.Removed >= 1 /\ ret[c].stats.Misses >= 1

\* w's timer has fired or its exit channel holds a signal
Triggered(w) ==
    \/ pc[w] \in {"Remove:Lock", "Remove:cs"}
    \/ pc[w] = "select" /\ exit[w] > 0

\* C10: each watcher removes at most once and terminates.  A watcher leaves its
\* select by one case only, and once cancelled or timed out it eventually
\* returns.
C10_WatcherTerminates ==
    \A w \in WatcherIds :
        /\ [](pc[w] = "done" => fr[w].via \in {"timeout", "exit"})
        /\ (Triggered(w) ~> pc[w] = "done")

\* a write of key has been called: it took effect, or it is under way
Written(key) ==
    \/ \E i \in 1..Len(log[key]) : log[key][i].op # "Remove"
    \/ \E c \in Clients :
           /\ pc[c] \in {"Set:Lock", "Set:cs", "SetWithTTL:Lock", "SetWithTTL:cs"}
           /\ fr[c].key = key

\* c returns from Get in this step
GetReturns(c) == pc[c] = "Get:cs" /\ pc'[c] # "Get:cs"

\* C11: Get on an unwritten key.  A Get of a key for which no Set or SetWithTTL
\* was ever called returns (nil, false), adds one to the misses of the key's
\* shard and leaves the other counters and all entries as they are.
C11_GetUnwritten ==
    [][\A c \in Clients :
           GetReturns(c) /\ ~Written(fr[c].key) =>
               /\ ret'[c] = [NoRet EXCEPT !.kind = "Get"]
               /\ Stats' = [Stats EXCEPT ![shardOf[fr[c].key]].Misses = @ + 1]
               /\ UNCHANGED Entries]_vars

\* C12: Get never returns a removed value.  A Remove that returns, a client's
\* or a watcher's, leaves its key absent, and only a Set or SetWithTTL of the
\* key makes it present again; and what a Get is about to return is what the
\* map holds as long as the Get has not returned: (value, true) while the key
\* is still present with that value, (nil, false) once it is absent.
C12_GetNotRemoved ==
    /\ [][\A g \in Procs :
              RemoveReturns(g) =>
                  fr[g].key \notin DOMAIN Entries'[shardOf[fr[g].key]]]_vars
    /\ [][\A key \in Keys :
              (~Present(key) /\ key \in DOMAIN Entries'[shardOf[key]]) =>
                  \E g \in Clients :
                      /\ pc[g] \in {"Set:cs", "SetWithTTL:cs"}
                      /\ fr[g].key = key
                      /\ pc'[g] = "idle"]_vars
    /\ [](\A c \in Clients, key \in Keys :
              Getting(c, key) =>
                  /\ GetResult(fr[c]).found <=> Present(key)
                  /\ GetResult(fr[c]).found => GetResult(fr[c]).value = ValueOf(key))

\* C12's case: after SetWithTTL(k, v) one Get has returned (v, true), the
\* watcher has then removed k, and a second Get of k is about to return
C12_Witness ==
    \E c \in Clients, d \in Clients, key \in HotKeys :
        /\ OnlyTTL(key)
        /\ pc[log[key][1].w] = "done"
        /\ ret[d] = [NoRet EXCEPT !.kind = "Get", !.value = log[key][1].value,
                                  !.found = TRUE]
        /\ Getting(c, key)
        /\ ~GetResult(fr[c]).found

\* the sums over all shards of the counters st, one record per shard
RECURSIVE Total(_, _)
Total(st, S) ==
    IF S = {} THEN ZeroStats
    ELSE LET s == CHOOSE x \in S : TRUE
             t == Total(st, S \ {s})
         IN  [Hits |-> t.Hits + st[s].Hits, Misses |-> t.Misses + st[s].Misses,
              Set |-> t.Set + st[s].Set, Removed |-> t.Removed + st[s].Removed]

\* C13 as claimed: the stats snapshot is a point-in-time copy.  What GetStats
\* returns is the cache-wide sum of the counters at one instant between the
\* call's start and its return.
C13_PointInTime ==
    \A c \in Clients :
        ret[c].kind = "GetStats" =>
            \E st \in seen[c] : ret[c].stats = Total(st, ShardIds)

\* C13 as amended: what GetStats returns is the sum, over the shards, of each
\* shard's counters at one instant between the call's start and its return,
\* an instant of its own for each shard.
C13_PerShardInstants ==
    \A c \in Clients :
        ret[c].kind = "GetStats" =>
            \E f \in [ShardIds -> seen[c]] :
                ret[c].stats = Total([s \in ShardIds |-> f[s][s]], ShardIds)

\* C13's case: a snapshot returned after calls on two shards took effect
\* during the sweep, that is the cache-wide sum of no instant of the call
C13_Witness ==
    \E c \in Clients :
        /\ ret[c].kind = "GetStats"
        /\ \E st \in seen[c], su \in seen[c] :
               st[0] # su[0] /\ st[shards - 1] # su[shards - 1]
        /\ \A st \in seen[c] : ret[c].stats # Total(st, ShardIds)

\* c takes a step of its GetStats call
GetStatsSteps(c) == pc[c] \in {"GetStats:Lock", "GetStats:cs"} /\ pc'[c] # pc[c]

\* C14: GetStats is read-only and detached.  No step of a GetStats call changes
\* a shard's entries or counters or a watcher's channel, and a snapshot a
\* client holds is not changed by any later step of the cache.
C14_GetStatsReadOnly ==
    /\ [][\A c \in Clients :
              GetStatsSteps(c) => UNCHANGED <<Entries, Stats, exit>>]_vars
    /\ [][\A c \in Clients :
              (ret[c].kind = "GetStats" /\ pc'[c] = "idle") => ret'[c] = ret[c]]_vars

\* C14's case: a client holds a snapshot with a write counted in it, and the
\* counters have changed since it was returned
C14_Witness ==
    \E c \in Clients :
        /\ ret[c].kind = "GetStats"
        /\ ret[c].stats.Set > 0
        /\ Stats \notin seen[c]

\* the shards whose lock g holds, as writer or as reader
LocksHeld(g) == {s \in ShardIds : mu[s].w = g \/ g \in mu[s].r}

\* g is waiting for a shard lock
AtLock(g) ==
    pc[g] \in {"Set:Lock", "SetWithTTL:Lock", "Remove:Lock", "Get:RLock", "GetStats:Lock"}

\* C15: single-lock discipline.  Every goroutine, a client in any call, a
\* GetStats sweep or a watcher, holds at most one shard lock, and holds none
\* while it waits for one: no cycle of goroutines waiting for each other's
\* shard locks can form.
C15_SingleLock ==
    \A g \in Procs :
        /\ Cardinality(LocksHeld(g)) <= 1
        /\ AtLock(g) => LocksHeld(g) = {}

\* C15's case: a sweep holds the lock of the last shard while another
\* goroutine holds the lock of another shard and a third waits for a lock
C15_Witness ==
    \E c \in Clients, g \in Procs, h \in Procs :
        /\ c # g /\ c # h /\ g # h
        /\ pc[c] = "GetStats:cs" /\ fr[c].n = shards - 1
        /\ LocksHeld(c) = {shards - 1}
        /\ LocksHeld(g) # {}
        /\ AtLock(h)

\* the one client call that took effect on key is a SetWithTTL with ttl <= 0
OnlyNonPositiveTTL(key) ==
    /\ Len(log[key]) = 1
    /\ log[key][1].op = "SetWithTTL" /\ log[key][1].ttl <= 0

ExitOf(key) == Lookup(Entries[shardOf[key]], key).e.exit

\* C17: Set stores an entry with no watcher attached.  An entry whose last
\* client write is a Set, also one that overwrote an entry made by SetWithTTL,
\* has no cancellation channel; and an entry has a cancellation channel only
\* while the watcher of that channel has not returned.
C17_SetNoWatcher ==
    \A key \in Keys :
        Present(key) =>
            /\ (log[key] # <<>> /\ Last(log[key]).op = "Set") => ExitOf(key) = nil
            /\ ExitOf(key) # nil => pc[ExitOf(key)] \in {"select", "Remove:Lock", "Remove:cs"}

\* the client calls that took effect on key are SetWithTTL, Remove and a
\* write, each made after the one before it had returned, and no other key of
\* its shard was written or removed
TTLRemoveWrite(key) ==
    /\ Len(log[key]) = 3
    /\ log[key][1].op = "SetWithTTL"
    /\ log[key][2].op = "Remove"
    /\ log[key][3].op \in {"Set", "SetWithTTL"}
    /\ InOrder(key)
    /\ \A other \in Keys \ {key} : shardOf[other] = shardOf[key] => log[other] = <<>>

\* C18: an explicit Remove voids the old watcher.  After SetWithTTL(k, v1, ttl),
\* Remove(k) and a write of v2 to k, the first call's watcher, when it is woken
\* by its cancellation signal and not by its timer, does not delete v2 and does
\* not count a removal: as long as v2's own watcher, if it has one, still
\* waits, k holds v2 and removed is one.
C18_RemoveVoidsWatcher ==
    \A key \in HotKeys :
        /\ TTLRemoveWrite(key)
        /\ fr[log[key][1].w].via # "timeout"
        /\ log[key][3].op = "SetWithTTL" => pc[log[key][3].w] = "select"
        => /\ Present(key)
           /\ ValueOf(key) = log[key][3].value
           /\ Stats[shardOf[key]].Removed = 1

\* the goroutines inside the critical section of a mutation of shard s
InMutation(s) ==
    {g \in Procs : /\ pc[g] \in {"Set:cs", "SetWithTTL:cs", "Remove:cs"}
                   /\ shardOf[fr[g].key] = s}

\* the clients inside the read section of a Get on shard s
InRead(s) == {c \in Clients : pc[c] = "Get:cs" /\ shardOf[fr[c].key] = s}

\* C19: mutations on one shard never overlap.  At most one of Set, SetWithTTL,
\* Remove and a watcher's Remove is inside its critical section on a shard,
\* and then no Get is inside its read section on that shard.
C19_MutationsExclusive ==
    \A s \in ShardIds :
        /\ Cardinality(InMutation(s)) <= 1
        /\ InMutation(s) # {} => InRead(s) = {}

\* C19's case: a watcher is inside Remove on a shard while one client waits to
\* write to that shard and another waits to read from it
C19_Witness ==
    \E w \in WatcherIds, c \in Clients, d \in Clients :
        /\ pc[w] = "Remove:cs"
        /\ pc[c] \in {"Set:Lock", "SetWithTTL:Lock", "Remove:Lock"}
        /\ pc[d] = "Get:RLock"
        /\ shardOf[fr[c].key] = shardOf[fr[w].key]
        /\ shardOf[fr[d].key] = shardOf[fr[w].key]

\* a write to shard s found its key present: it overwrote an entry
Overwritten(s) ==
    \E key \in Keys :
        /\ shardOf[key] = s
        /\ \E i \in 1..Len(log[key]) : log[key][i].op # "Remove" /\ log[key][i].ok

\* C20: counter/size invariant.  In every shard removed <= set and the number
\* of keys present is at most set - removed, and equal to it as long as no
\* write to the shard has overwritten an entry; and none of the four counters
\* ever decreases.
C20_CounterSize ==
    /\ [](\A s \in ShardIds :
              /\ Stats[s].Removed <= Stats[s].Set
              /\ Cardinality(DOMAIN Entries[s]) <= Stats[s].Set - Stats[s].Removed
              /\ ~Overwritten(s) =>
                     Cardinality(DOMAIN Entries[s]) = Stats[s].Set - Stats[s].Removed)
    /\ [][\A s \in ShardIds :
              /\ Stats'[s].Hits >= Stats[s].Hits
              /\ Stats'[s].Misses >= Stats[s].Misses
              /\ Stats'[s].Set >= Stats[s].Set
              /\ Stats'[s].Removed >= Stats[s].Removed]_vars

====
